---- MODULE Spec2Model ----
(***************************************************************************)
(* Booking server (src/backend/server.js): duration rules, working-hours   *)
(* calendar, conflict checking and the /book, /availability and            *)
(* DELETE /book/:id handlers over the appointments table.                  *)
(*                                                                         *)
(* Time is counted in minutes of local wall-clock time from 00:00 of day 0 *)
(* (a Thursday).  A JavaScript string is a sequence of one-character       *)
(* tokens; Hebrew letters are written by name ("qof", "yod", ...).  A      *)
(* value of the free-form details bag is a record [t, v]: t = "undef"      *)
(* (field absent), "num" (the number v), "str" (the numeric string of v)   *)
(* or "junk" (a non-numeric, non-empty string).                            *)
(***************************************************************************)
EXTENDS Integers, Sequences, FiniteSets, Bags, TLC

VARIABLES store, now, inflight

vars == <<store, now, inflight>>

----------------------------------------------------------------------------
(* Bounds of the model *)

\* rows the appointments table holds before the model stops inserting
MaxRows == 3

----------------------------------------------------------------------------
(* Strings *)

\* String.prototype.toLowerCase on one character: the Latin capitals change,
\* Hebrew letters, digits and punctuation have no case
ToLowerChar(ch) ==
  CASE ch = "A" -> "a" [] ch = "B" -> "b" [] ch = "C" -> "c" [] ch = "D" -> "d"
    [] ch = "E" -> "e" [] ch = "F" -> "f" [] ch = "G" -> "g" [] ch = "H" -> "h"
    [] ch = "I" -> "i" [] ch = "J" -> "j" [] ch = "K" -> "k" [] ch = "L" -> "l"
    [] ch = "M" -> "m" [] ch = "N" -> "n" [] ch = "O" -> "o" [] ch = "P" -> "p"
    [] ch = "Q" -> "q" [] ch = "R" -> "r" [] ch = "S" -> "s" [] ch = "T" -> "t"
    [] ch = "U" -> "u" [] ch = "V" -> "v" [] ch = "W" -> "w" [] ch = "X" -> "x"
    [] ch = "Y" -> "y" [] ch = "Z" -> "z" [] OTHER -> ch

ToLowerCase(s) == [i \in 1..Len(s) |-> ToLowerChar(s[i])]

RECURSIVE TrimStart(_)
TrimStart(s) ==
  IF s # <<>> /\ Head(s) = " " THEN TrimStart(Tail(s)) ELSE s

RECURSIVE TrimEnd(_)
TrimEnd(s) ==
  IF s # <<>> /\ s[Len(s)] = " " THEN TrimEnd(SubSeq(s, 1, Len(s) - 1)) ELSE s

Trim(s) == TrimEnd(TrimStart(s))

Includes(s, sub) ==
  \E i \in 0..(Len(s) - Len(sub)) : SubSeq(s, i + 1, i + Len(sub)) = sub

KidudEn == <<"k","i","d","u","d">>

KidudHe == <<"qof","yod","dalet","vav","dalet">>

KavuaHe == <<"alef","yod","shin","vav","resh"," ","kaf","nun","yod","samekh",
             "he"," ","qof","bet","vav","ayin">>

----------------------------------------------------------------------------
(* Details bag *)

Undef == [t |-> "undef", v |-> 0]

Num(n) == [t |-> "num", v |-> n]

NumStr(n) == [t |-> "str", v |-> n]

Junk == [t |-> "junk", v |-> 0]

EmptyObject == [kind |-> "object", sodi |-> Undef, numS |-> Undef,
                anan |-> Undef, numA |-> Undef]

\* details as they arrive: an object, nothing at all, or a string that is
\* not JSON
Obj(s, nS, a, nA) == [kind |-> "object", sodi |-> s, numS |-> nS,
                      anan |-> a, numA |-> nA]

MissingDetails == [EmptyObject EXCEPT !.kind = "missing"]

BadJsonDetails == [EmptyObject EXCEPT !.kind = "badjson"]

parseDetails(details) ==
  IF details.kind = "missing" THEN EmptyObject
  ELSE IF details.kind = "badjson" THEN EmptyObject
  ELSE details

Truthy(x) ==
  CASE x.t = "undef" -> FALSE
    [] x.t = "num"   -> x.v # 0
    [] OTHER         -> TRUE

\* a || b || 0
OrElse(a, b) == IF Truthy(a) THEN a ELSE IF Truthy(b) THEN b ELSE Num(0)

\* parseInt(x, 10)
ParseInt(x) ==
  IF x.t \in {"num", "str"} THEN [nan |-> FALSE, v |-> x.v]
  ELSE [nan |-> TRUE, v |-> 0]

\* parseInt(...) || 0
OrZero(p) == IF p.nan THEN 0 ELSE p.v

\* parseInt(a || b || 0, 10) || 0
UnitCount(a, b) == OrZero(ParseInt(OrElse(a, b)))

Max(a, b) == IF a >= b THEN a ELSE b

----------------------------------------------------------------------------
(* Duration rules *)

\* (serviceType || '').toString().trim().toLowerCase()
normalize(serviceType) == ToLowerCase(Trim(serviceType))

\* st === 'kidud' || st.includes('kidud') || st.includes(<kidud in Hebrew>)
isKidudName(st) ==
  st = KidudEn \/ Includes(st, KidudEn) \/ Includes(st, KidudHe)

IsKidud(serviceType) == isKidudName(normalize(serviceType))

DurationMap == <<
  [key |-> <<"alef","yod","shin","vav","resh"," ","he","vav","tsadi","lamed",
             "quote","alef">>, minutes |-> 15],
  [key |-> <<"he","shin","het","resh","he">>, minutes |-> 15],
  [key |-> <<"tet","yod","vav","lamed","yod","memsofit"," ","yod","vav",
             "tsadi","alef">>, minutes |-> 5],
  [key |-> <<"tet","vav","pe","samekh"," ","tet","yod","vav","lamed","yod",
             "memsofit"," ","-"," ","yod","vav","tsadi","alef">>,
   minutes |-> 5],
  [key |-> <<"het","vav","quote","lamed">>, minutes |-> 5],
  [key |-> <<"tet","vav","pe","samekh"," ","het","vav","quote","lamed">>,
   minutes |-> 5],
  [key |-> KavuaHe, minutes |-> 5],
  [key |-> <<"h","o","t","z","l","a">>, minutes |-> 15],
  [key |-> <<"h","a","s","h","c","h","a","r","a">>, minutes |-> 15],
  [key |-> <<"t","i","u","l","i","m","-","o","u","t">>, minutes |-> 5],
  [key |-> <<"c","h","u","l">>, minutes |-> 5] >>

\* the first entry of the table, in key order, that passes the test
FirstEntry(test, table) ==
  IF \E i \in 1..Len(table) : test[i]
  THEN table[CHOOSE i \in 1..Len(table) :
               test[i] /\ \A j \in 1..(i - 1) : ~test[j]]
  ELSE [key |-> <<>>, minutes |-> 0]

\* the rule with the two categories added up
kidudMinutes_Sum(numS, numA) == Max(numS * 10 + numA * 10, 10)

\* Math.max(Math.max(numS * 10, numA * 10), 10)
kidudMinutes(numS, numA) == Max(Max(numS * 10, numA * 10), 10)

\* map[serviceType], else the first key equal to st in lower case, else 5
mapMinutes(exact, folded) ==
  IF exact.minutes # 0 THEN exact.minutes
  ELSE IF folded.minutes # 0 THEN folded.minutes
  ELSE 5

durationOf(serviceType, st, details) ==
  IF isKidudName(st)
  THEN kidudMinutes(UnitCount(details.sodi, details.numS),
                    UnitCount(details.anan, details.numA))
  ELSE mapMinutes(
         FirstEntry([i \in 1..Len(DurationMap) |->
                       DurationMap[i].key = serviceType], DurationMap),
         FirstEntry([i \in 1..Len(DurationMap) |->
                       ToLowerCase(DurationMap[i].key) = st], DurationMap))

\* names that every object inherits from Object.prototype; map[name] is the
\* inherited member, a function or an object, for each of them
ObjectPrototypeKeys == {
  <<"c","o","n","s","t","r","u","c","t","o","r">>,
  <<"t","o","S","t","r","i","n","g">>,
  <<"v","a","l","u","e","O","f">>,
  <<"_","_","p","r","o","t","o","_","_">> }

InheritedMember == [t |-> "function", v |-> 0]

\* the value the function returns: the inherited member when map[serviceType]
\* is one, else a number of minutes
durationValue(serviceType, st, details) ==
  IF ~isKidudName(st) /\ serviceType \in ObjectPrototypeKeys
  THEN InheritedMember
  ELSE Num(durationOf(serviceType, st, details))

computeDuration(serviceType, details) ==
  durationValue(serviceType, normalize(serviceType), parseDetails(details))

\* the minutes that DateTime.plus adds when the value is a number
minutesOf(serviceType, details) == computeDuration(serviceType, details).v

----------------------------------------------------------------------------
(* Working calendar *)

MinutesPerDay == 24 * 60

At(day, hours, minutes) == day * MinutesPerDay + hours * 60 + minutes

\* '08:30'.split(':').map(Number), as offsets from the start of the day
WORKING_BLOCKS == <<
  [start |-> 8 * 60 + 30,  end |-> 11 * 60 + 30],
  [start |-> 16 * 60 + 30, end |-> 18 * 60 + 30],
  [start |-> 20 * 60 + 30, end |-> 22 * 60] >>

SLOT_STEP_MIN == 5

MaxDays == 30

startOfDay(t) == (t \div MinutesPerDay) * MinutesPerDay

hasSameDay(t, u) == startOfDay(t) = startOfDay(u)

\* luxon weekday, 1 = Monday .. 7 = Sunday; day 0 is a Thursday
weekday(t) == (((t \div MinutesPerDay) + 3) % 7) + 1

\* the test with Saturday and Sunday for the weekend
isWeekend_SaturdaySunday(t) == weekday(t) \in {6, 7}

isWeekend(t) == weekday(t) \in {5, 6}

\* DateTime.toISO(): the local date and the local time of day; SQLite
\* compares the TEXT columns character by character, date first
toISO(t) == <<t \div MinutesPerDay, t % MinutesPerDay>>

\* DateTime.fromISO(); the result is invalid when the time of day is not one
isValidISO(iso) == Len(iso) = 2 /\ iso[1] >= 0 /\ iso[2] \in 0..(MinutesPerDay - 1)

fromISO(iso) == iso[1] * MinutesPerDay + iso[2]

TextLE(a, b) == a[1] < b[1] \/ (a[1] = b[1] /\ a[2] <= b[2])

TextGE(a, b) == TextLE(b, a)

\* the while loop of one block: current runs from the block's start in steps
\* of SLOT_STEP_MIN while current <= blockEnd - 1 minute
BlockSlots(blockStart, blockEnd) ==
  IF blockStart <= blockEnd - 1
  THEN [i \in 1..(((blockEnd - 1 - blockStart) \div SLOT_STEP_MIN) + 1) |->
          blockStart + (i - 1) * SLOT_STEP_MIN]
  ELSE <<>>

RECURSIVE SlotsOfBlocks(_, _)
SlotsOfBlocks(dayDateTime, b) ==
  IF b > Len(WORKING_BLOCKS) THEN <<>>
  ELSE BlockSlots(dayDateTime + WORKING_BLOCKS[b].start,
                  dayDateTime + WORKING_BLOCKS[b].end)
       \o SlotsOfBlocks(dayDateTime, b + 1)

generateSlotsForDay(dayDateTime) == SlotsOfBlocks(dayDateTime, 1)

\* the test with the end of the interval left out
fitsWithinBlock_StartOnly(startDT, endDT) ==
  LET day == startOfDay(startDT)
  IN  \E b \in 1..Len(WORKING_BLOCKS) :
        /\ startDT >= day + WORKING_BLOCKS[b].start
        /\ startDT <= day + WORKING_BLOCKS[b].end

fitsWithinBlock(startDT, endDT) ==
  LET day == startOfDay(startDT)
  IN  \E b \in 1..Len(WORKING_BLOCKS) :
        /\ startDT >= day + WORKING_BLOCKS[b].start
        /\ endDT <= day + WORKING_BLOCKS[b].end

----------------------------------------------------------------------------
(* Conflict checking *)

\* SELECT * FROM appointments WHERE NOT (endTime <= ? OR startTime >= ?)
\* the query with touching intervals taken for overlapping ones
OverlapRows_Touching(rowsTable, startISO, endISO) ==
  LET hit == {r \in DOMAIN rowsTable :
                ~( (TextLE(r.endTime, startISO) /\ r.endTime # startISO)
                   \/ (TextGE(r.startTime, endISO) /\ r.startTime # endISO) )}
  IN  [r \in hit |-> rowsTable[r]]

OverlapRows(rowsTable, startISO, endISO) ==
  LET hit == {r \in DOMAIN rowsTable :
                ~(TextLE(r.endTime, startISO) \/ TextGE(r.startTime, endISO))}
  IN  [r \in hit |-> rowsTable[r]]

MsgTwoOverlap == "two overlapping appointments already exist"

MsgSodi == "two kidud on the sodi network at the same time"

MsgAnan == "two kidud on the anan network at the same time"

Verdict(ok, message) == [ok |-> ok, message |-> message]

rowS(r) == UnitCount(r.details.sodi, r.details.numS)

rowA(r) == UnitCount(r.details.anan, r.details.numA)

\* the loop with its second rule left out
kidudVerdict_SodiOnly(kidudRows, newS, newA) ==
  IF \E r \in kidudRows : newS > 0 /\ rowS(r) > 0 THEN Verdict(FALSE, MsgSodi)
  ELSE Verdict(TRUE, "")

\* the loop with the two categories taken for one
kidudVerdict_OneCategory(kidudRows, newS, newA) ==
  IF \E r \in kidudRows : (newS > 0 \/ newA > 0) /\ (rowS(r) > 0 \/ rowA(r) > 0)
  THEN Verdict(FALSE, MsgSodi)
  ELSE Verdict(TRUE, "")

\* the loop over the rows; it is reached with at most one row
kidudVerdict(kidudRows, newS, newA) ==
  IF \E r \in kidudRows : newS > 0 /\ rowS(r) > 0 THEN Verdict(FALSE, MsgSodi)
  ELSE IF \E r \in kidudRows : newA > 0 /\ rowA(r) > 0 THEN Verdict(FALSE, MsgAnan)
  ELSE Verdict(TRUE, "")

\* the callback with the limit off by one
rowsVerdict_ThreeAllowed(rows, isKidud, d) ==
  IF BagCardinality(rows) >= 3 THEN Verdict(FALSE, MsgTwoOverlap)
  ELSE IF isKidud
  THEN kidudVerdict({r \in BagToSet(rows) : IsKidud(r.serviceType)},
                    UnitCount(d.sodi, d.numS), UnitCount(d.anan, d.numA))
  ELSE Verdict(TRUE, "")

\* the callback of db.all; isKidud and d are the request's, which do not
\* depend on the rows
rowsVerdict(rows, isKidud, d) ==
  IF BagCardinality(rows) >= 2 THEN Verdict(FALSE, MsgTwoOverlap)
  ELSE IF isKidud
  THEN kidudVerdict({r \in BagToSet(rows) : IsKidud(r.serviceType)},
                    UnitCount(d.sodi, d.numS), UnitCount(d.anan, d.numA))
  ELSE Verdict(TRUE, "")

checkConflicts(rowsTable, startISO, endISO, serviceType, details) ==
  rowsVerdict(OverlapRows(rowsTable, startISO, endISO), IsKidud(serviceType),
              parseDetails(details))

----------------------------------------------------------------------------
(* Forward search *)

Slot(found, start, end) == [found |-> found, start |-> start, end |-> end]

NoSlot == Slot(FALSE, 0, 0)

\* one pass of the slot loop: not in the past of today, the whole interval
\* inside one block, and no conflict (checkConflicts, with what it derives from
\* the request alone computed once for the loop)
\* the test of one slot with the past slots of today let through
slotOk_PastAllowed(rowsTable, start, end, isKidud, d, nowDT) ==
  /\ fitsWithinBlock(start, end)
  /\ rowsVerdict(OverlapRows(rowsTable, toISO(start), toISO(end)), isKidud, d).ok

slotOk(rowsTable, start, end, isKidud, d, nowDT) ==
  /\ ~(start < nowDT /\ hasSameDay(start, nowDT))
  /\ fitsWithinBlock(start, end)
  /\ rowsVerdict(OverlapRows(rowsTable, toISO(start), toISO(end)), isKidud, d).ok

\* the first index of 1..n that passes the test, 0 when none does
FirstIndex(test, n) ==
  IF \E i \in 1..n : test[i]
  THEN CHOOSE i \in 1..n : test[i] /\ \A j \in 1..(i - 1) : ~test[j]
  ELSE 0

slotAt(slots, i, durationMin) ==
  IF i = 0 THEN NoSlot ELSE Slot(TRUE, slots[i], slots[i] + durationMin)

\* the slot loop of one day
firstOkInDay(rowsTable, slots, isKidud, d, durationMin, nowDT) ==
  slotAt(slots,
         FirstIndex([i \in 1..Len(slots) |->
                       slotOk(rowsTable, slots[i], slots[i] + durationMin,
                              isKidud, d, nowDT)], Len(slots)),
         durationMin)

orElseSlot(hit, next) == IF hit.found THEN hit ELSE next

\* the day loop, from dayOffset on
\* the loop over the days without its break for same-day-only requests
RECURSIVE searchDays_NoBreak(_, _, _, _, _, _, _, _, _)
searchDays_NoBreak(rowsTable, isKidud, d, durationMin, day0, dayOffset, sameDayOnly, maxDays, nowDT) ==
  IF dayOffset > maxDays THEN NoSlot
  ELSE orElseSlot(
         IF isWeekend(day0 + dayOffset * MinutesPerDay) THEN NoSlot
         ELSE firstOkInDay(rowsTable,
                generateSlotsForDay(day0 + dayOffset * MinutesPerDay),
                isKidud, d, durationMin, nowDT),
         searchDays_NoBreak(rowsTable, isKidud, d, durationMin, day0,
                            dayOffset + 1, sameDayOnly, maxDays, nowDT))

RECURSIVE searchDays(_, _, _, _, _, _, _, _, _)
searchDays(rowsTable, isKidud, d, durationMin, day0, dayOffset, sameDayOnly, maxDays, nowDT) ==
  IF dayOffset > maxDays THEN NoSlot
  ELSE IF sameDayOnly /\ dayOffset > 0 THEN NoSlot
  ELSE orElseSlot(
         IF isWeekend(day0 + dayOffset * MinutesPerDay) THEN NoSlot
         ELSE firstOkInDay(rowsTable,
                generateSlotsForDay(day0 + dayOffset * MinutesPerDay),
                isKidud, d, durationMin, nowDT),
         searchDays(rowsTable, isKidud, d, durationMin, day0, dayOffset + 1,
                    sameDayOnly, maxDays, nowDT))

\* nowDT is the DateTime.now() the function reads
findNextAvailableSlot(rowsTable, serviceType, details, fromDT, sameDayOnly, maxDays, nowDT) ==
  searchDays(rowsTable, IsKidud(serviceType), parseDetails(details),
             minutesOf(serviceType, details), startOfDay(fromDT), 0,
             sameDayOnly, maxDays, nowDT)

----------------------------------------------------------------------------
(* Requests the model submits *)

KidudSodi == [serviceType |-> KidudHe,
              details |-> Obj(Num(1), Undef, Undef, Undef)]

KidudAnan == [serviceType |-> <<"K","i","d","u","d"," ">>,
              details |-> Obj(Undef, Undef, Num(0), NumStr(1))]

Kavua == [serviceType |-> KavuaHe, details |-> MissingDetails]

Requests == {KidudSodi, KidudAnan, Kavua}

\* a coded entry of 19 units: 190 minutes, longer than every working block
KidudLong == [serviceType |-> KidudEn,
              details |-> Obj(Undef, NumStr(19), Undef, Undef)]

NoServiceType == [serviceType |-> <<>>, details |-> EmptyObject]

\* startTime of the request body: absent, an ISO timestamp, or a string that
\* is not a timestamp
NoStartTime == <<>>

BadTimestamp == <<0, 25 * 60>>

StartTimes == {
  NoStartTime, toISO(At(0, 8, 30)), toISO(At(0, 11, 28)), toISO(At(1, 8, 30)) }

\* the bodies of POST /book
Bookings ==
  {<<r, s>> : r \in Requests, s \in StartTimes}
  \cup {<<NoServiceType, NoStartTime>>, <<Kavua, BadTimestamp>>}

\* the bodies without a startTime, the 190-minute request among them
AutoBookings == {<<r, NoStartTime>> : r \in Requests \cup {KidudLong}}

\* the queries of GET /availability: a date, absent or not a date, and a request
NoDate == <<>>

Listings == {
  <<toISO(At(0, 0, 0)), Kavua>>, <<toISO(At(1, 0, 0)), KidudSodi>>,
  <<NoDate, Kavua>>, <<BadTimestamp, Kavua>> }

\* instants at which the clock is read
ClockInstants == { At(0, 8, 0), At(0, 8, 32), At(0, 21, 58), At(1, 9, 0) }

Callers == {"a", "b"}

----------------------------------------------------------------------------
(* State *)

Response(kind, status, message, startTime, endTime, available) ==
  [kind |-> kind, status |-> status, message |-> message,
   startTime |-> startTime, endTime |-> endTime, available |-> available]

Failure(kind, status, message) ==
  Response(kind, status, message, <<>>, <<>>, <<>>)

NoResponse == Failure("None", 0, "")

\* a handler between two of its awaits: pc is "check" while its SELECT is
\* queued, "insert" while its INSERT is; start and end are the interval it is
\* asking about, dayOffset and nowDT the position and the clock of its search
Handler(pc, serviceType, details, auto, start, end, dayOffset, nowDT) ==
  [pc |-> pc, serviceType |-> serviceType, details |-> details, auto |-> auto,
   start |-> start, end |-> end, dayOffset |-> dayOffset, nowDT |-> nowDT]

Idle == Handler("idle", <<>>, EmptyObject, FALSE, 0, 0, 0, 0)

Init ==
  /\ store = EmptyBag
  /\ now \in ClockInstants
  /\ inflight = [c \in Callers |-> Idle]

\* INSERT INTO appointments (...) VALUES (...)
\* the columns the handlers read back; created_at, phone and done are written
\* and never read by a handler, and id only tells equal rows apart: the table
\* is a bag of rows
Row(serviceType, details, start, end) ==
  [serviceType |-> serviceType, details |-> details,
   startTime |-> toISO(start), endTime |-> toISO(end)]

\* the policy with no service type designated
sameDayOnlyOf_Never(serviceType) == FALSE

sameDayOnlyOf(serviceType) ==
  LET stLower == ToLowerCase(Trim(serviceType))
  IN  \/ Includes(stLower, KavuaHe)
      \/ stLower = KavuaHe
      \/ Includes(stLower, ToLowerCase(KavuaHe))

----------------------------------------------------------------------------
(* POST /book, the handler run to completion *)

Booked(start, end) ==
  Response("Booked", 200, "", toISO(start), toISO(end), <<>>)

Outcome(insert, start, end, resp) ==
  [insert |-> insert, start |-> start, end |-> end, resp |-> resp]

Refuse(kind, status, message) == Outcome(FALSE, 0, 0, Failure(kind, status, message))

\* the branch with a checker that lets no second row overlap
explicitOutcome_OneRow(rowsTable, serviceType, details, start, end) ==
  IF ~fitsWithinBlock(start, end) THEN Refuse("InvalidInterval", 400, "")
  ELSE IF OverlapRows(rowsTable, toISO(start), toISO(end)) # EmptyBag
  THEN Refuse("Conflict", 409, MsgTwoOverlap)
  ELSE Outcome(TRUE, start, end, Booked(start, end))

\* the branch taken when startTime is given
explicitOutcome(rowsTable, serviceType, details, start, end) ==
  IF ~fitsWithinBlock(start, end) THEN Refuse("InvalidInterval", 400, "")
  ELSE LET conflict == checkConflicts(rowsTable, toISO(start), toISO(end),
                                      serviceType, details)
       IN  IF ~conflict.ok THEN Refuse("Conflict", 409, conflict.message)
           ELSE Outcome(TRUE, start, end, Booked(start, end))

\* the branch taken when it is not
autoOutcome(slot) ==
  IF ~slot.found THEN Refuse("NoAvailability", 409, "")
  ELSE Outcome(TRUE, slot.start, slot.end, Booked(slot.start, slot.end))

validOutcome(rowsTable, serviceType, startTime, details, duration, nowDT) ==
  IF startTime # NoStartTime
  THEN IF ~isValidISO(startTime) THEN Refuse("InvalidRequest", 400, "")
       ELSE explicitOutcome(rowsTable, serviceType, details,
                            fromISO(startTime), fromISO(startTime) + duration)
  ELSE autoOutcome(findNextAvailableSlot(rowsTable, serviceType, details,
                     nowDT, sameDayOnlyOf(serviceType), MaxDays, nowDT))

\* DateTime.plus throws on minutes that are not a number, and the catch of the
\* handler answers 500
thrownOutcome(startTime) ==
  IF startTime # NoStartTime /\ ~isValidISO(startTime)
  THEN Refuse("InvalidRequest", 400, "")
  ELSE Refuse("InternalError", 500, "")

\* what the handler answers and whether it inserts, from the table it reads
BookOutcome(rowsTable, serviceType, startTime, detailsIn, nowDT) ==
  IF serviceType = <<>> THEN Refuse("InvalidRequest", 400, "")
  ELSE IF computeDuration(serviceType, parseDetails(detailsIn)).t # "num"
  THEN thrownOutcome(startTime)
  ELSE validOutcome(rowsTable, serviceType, startTime,
                    parseDetails(detailsIn),
                    minutesOf(serviceType, parseDetails(detailsIn)), nowDT)

NobodyInFlight == \A c \in Callers : inflight[c].pc = "idle"

\* stmt.run(...) and its callback, or the refusal
\* the handler going on to the INSERT after it has answered a refusal
Settle_NoReturn(o, serviceType, details) ==
  /\ BagCardinality(store) < MaxRows
  /\ store' = store (+) SetToBag({Row(serviceType, details, o.start, o.end)})

Settle(o, serviceType, details) ==
  IF o.insert
  THEN /\ BagCardinality(store) < MaxRows
       /\ store' = store (+) SetToBag({Row(serviceType, details, o.start, o.end)})
  ELSE UNCHANGED store

PostBook(serviceType, startTime, detailsIn) ==
  /\ NobodyInFlight
  /\ Settle(BookOutcome(store, serviceType, startTime, detailsIn, now),
            serviceType, parseDetails(detailsIn))
  /\ UNCHANGED <<now, inflight>>

----------------------------------------------------------------------------
(* DELETE /book/:id *)

\* the id names one row of the table, or no row
NoRow == Row(<<>>, EmptyObject, 0, 0)

DeleteBook(row) ==
  /\ NobodyInFlight
  /\ store' = store (-) SetToBag({row})
  /\ UNCHANGED <<now, inflight>>

----------------------------------------------------------------------------
(* GET /availability *)

\* the slot loop of the listing: every slot that passes, in list order
\* the loop of the listing with the past slots of today let through
availableOf_PastListed(rowsTable, slots, isKidud, d, duration, nowDT) ==
  LET Keep(start) ==
        /\ fitsWithinBlock(start, start + duration)
        /\ rowsVerdict(OverlapRows(rowsTable, toISO(start),
                                   toISO(start + duration)), isKidud, d).ok
  IN  SelectSeq(slots, Keep)

availableOf(rowsTable, slots, isKidud, d, duration, nowDT) ==
  LET Keep(start) == slotOk(rowsTable, start, start + duration, isKidud, d,
                            nowDT)
  IN  SelectSeq(slots, Keep)

isoOfAll(starts) == [i \in 1..Len(starts) |-> toISO(starts[i])]

Listed(available) == Response("Listed", 200, "", <<>>, <<>>, available)

\* details of the query string: JSON.parse, {} when it does not parse
queryDetails(detailsRaw) ==
  IF detailsRaw.kind = "object" THEN detailsRaw ELSE EmptyObject

listDay(rowsTable, dayStart, serviceType, details, nowDT) ==
  IF isWeekend(dayStart) THEN Listed(<<>>)
  ELSE IF computeDuration(serviceType, details).t # "num"
  THEN LET slots == generateSlotsForDay(dayStart)
       IN  IF \E i \in 1..Len(slots) :
                ~(slots[i] < nowDT /\ hasSameDay(slots[i], nowDT))
           THEN NoResponse
           ELSE Listed(<<>>)
  ELSE Listed(isoOfAll(availableOf(rowsTable, generateSlotsForDay(dayStart),
                                   IsKidud(serviceType), parseDetails(details),
                                   minutesOf(serviceType, details), nowDT)))

AvailabilityOutcome(rowsTable, dateStr, serviceType, detailsRaw, nowDT) ==
  IF dateStr = NoDate THEN Failure("InvalidRequest", 400, "")
  ELSE IF ~isValidISO(dateStr) THEN Failure("InvalidRequest", 400, "")
  ELSE listDay(rowsTable, startOfDay(fromISO(dateStr)), serviceType,
               queryDetails(detailsRaw), nowDT)

\* the handler writing a row for the day it lists
GetAvailability_Persists(dateStr, serviceType, detailsRaw) ==
  /\ NobodyInFlight
  /\ BagCardinality(store) < MaxRows
  /\ store' = store (+) SetToBag({Row(serviceType, queryDetails(detailsRaw),
                                      now, now)})
  /\ UNCHANGED <<now, inflight>>

GetAvailability(dateStr, serviceType, detailsRaw) ==
  /\ NobodyInFlight
  /\ AvailabilityOutcome(store, dateStr, serviceType, detailsRaw,
                         now).status \in {200, 400}
  /\ UNCHANGED <<store, now, inflight>>

----------------------------------------------------------------------------
(* The clock *)

Tick ==
  /\ \E t \in ClockInstants : t > now /\ now' = t
  /\ UNCHANGED <<store, inflight>>

----------------------------------------------------------------------------
(* POST /book, interleaved at its awaits *)

\* the slots of one day the loop asks the table about, after a given start
candidateInDay(slots, after, durationMin, nowDT) ==
  slotAt(slots,
         FirstIndex([i \in 1..Len(slots) |->
                       /\ slots[i] > after
                       /\ ~(slots[i] < nowDT /\ hasSameDay(slots[i], nowDT))
                       /\ fitsWithinBlock(slots[i], slots[i] + durationMin)],
                    Len(slots)),
         durationMin)

atOffset(hit, dayOffset) ==
  [found |-> hit.found, start |-> hit.start, end |-> hit.end,
   dayOffset |-> dayOffset]

orElseAt(hit, next) == IF hit.found THEN hit ELSE next

\* the next slot the search asks the table about, in loop order, from the
\* position (dayOffset, after)
RECURSIVE nextCandidate(_, _, _, _, _, _, _)
nextCandidate(day0, dayOffset, after, durationMin, sameDayOnly, maxDays, nowDT) ==
  IF dayOffset > maxDays THEN atOffset(NoSlot, dayOffset)
  ELSE IF sameDayOnly /\ dayOffset > 0 THEN atOffset(NoSlot, dayOffset)
  ELSE orElseAt(
         IF isWeekend(day0 + dayOffset * MinutesPerDay)
         THEN atOffset(NoSlot, dayOffset)
         ELSE atOffset(candidateInDay(
                         generateSlotsForDay(day0 + dayOffset * MinutesPerDay),
                         after, durationMin, nowDT), dayOffset),
         nextCandidate(day0, dayOffset + 1, after, durationMin, sameDayOnly,
                       maxDays, nowDT))

\* a search that has a slot to ask about waits for its SELECT
awaitCandidate(c, serviceType, details, cand, nowDT) ==
  IF cand.found
  THEN inflight' = [inflight EXCEPT ![c] =
         Handler("check", serviceType, details, TRUE, cand.start, cand.end,
                 cand.dayOffset, nowDT)]
  ELSE inflight' = [inflight EXCEPT ![c] = Idle]

\* the handler up to its first await: it answers at once, or queues a SELECT
beginValid(c, serviceType, startTime, details, duration) ==
  IF startTime # NoStartTime
  THEN IF ~isValidISO(startTime) THEN UNCHANGED inflight
       ELSE IF ~fitsWithinBlock(fromISO(startTime), fromISO(startTime) + duration)
       THEN UNCHANGED inflight
       ELSE inflight' = [inflight EXCEPT ![c] =
              Handler("check", serviceType, details, FALSE, fromISO(startTime),
                      fromISO(startTime) + duration, 0, now)]
  ELSE awaitCandidate(c, serviceType, details,
         nextCandidate(startOfDay(now), 0, -1, duration,
                       sameDayOnlyOf(serviceType), MaxDays, now), now)

BeginBook(c, serviceType, startTime, detailsIn) ==
  /\ inflight[c].pc = "idle"
  /\ IF serviceType = <<>> THEN UNCHANGED inflight
     ELSE IF computeDuration(serviceType, parseDetails(detailsIn)).t # "num"
     THEN UNCHANGED inflight
     ELSE beginValid(c, serviceType, startTime, parseDetails(detailsIn),
                     minutesOf(serviceType, parseDetails(detailsIn)))
  /\ UNCHANGED <<store, now>>

\* the SELECT runs and its callback resumes the handler: on ok it queues the
\* INSERT; otherwise it answers 409 or, in a search, asks about the next slot
afterCheck(c, h, verdict) ==
  IF verdict.ok
  THEN inflight' = [inflight EXCEPT ![c].pc = "insert"]
  ELSE IF ~h.auto THEN inflight' = [inflight EXCEPT ![c] = Idle]
  ELSE awaitCandidate(c, h.serviceType, h.details,
         nextCandidate(startOfDay(h.nowDT), h.dayOffset, h.start,
                       h.end - h.start, sameDayOnlyOf(h.serviceType), MaxDays,
                       h.nowDT), h.nowDT)

CheckDone(c) ==
  /\ inflight[c].pc = "check"
  /\ afterCheck(c, inflight[c],
                checkConflicts(store, toISO(inflight[c].start),
                               toISO(inflight[c].end), inflight[c].serviceType,
                               inflight[c].details))
  /\ UNCHANGED <<store, now>>

\* the INSERT runs and its callback answers
InsertDone(c) ==
  /\ inflight[c].pc = "insert"
  /\ BagCardinality(store) < MaxRows
  /\ store' = store (+) SetToBag({Row(inflight[c].serviceType,
                                      inflight[c].details, inflight[c].start,
                                      inflight[c].end)})
  /\ inflight' = [inflight EXCEPT ![c] = Idle]
  /\ UNCHANGED now

ConcBookings == {
  <<Kavua, NoStartTime>>, <<KidudSodi, NoStartTime>>,
  <<KidudSodi, toISO(At(0, 8, 30))>>, <<KidudAnan, toISO(At(0, 11, 28))>>,
  <<NoServiceType, NoStartTime>>, <<Kavua, BadTimestamp>> }

NextConc ==
  \/ \E c \in Callers, b \in ConcBookings :
       BeginBook(c, b[1].serviceType, b[2], b[1].details)
  \/ \E c \in Callers : CheckDone(c)
  \/ \E c \in Callers : InsertDone(c)
  \/ \E row \in BagToSet(store) : DeleteBook(row)
  \/ Tick

SpecConc == Init /\ [][NextConc]_vars

----------------------------------------------------------------------------
(* The handlers when a statement of the table may fail *)

\* a handler whose caller has its answer, a 500, or will never have one
Ended(h, pc) == [h EXCEPT !.pc = pc]

\* the SELECT of POST /book calls back with an error: checkConflicts rejects,
\* the await throws into the catch of the handler, which answers 500
CheckFails(c) ==
  /\ inflight[c].pc = "check"
  /\ inflight' = [inflight EXCEPT ![c] = Ended(inflight[c], "StoreFailure")]
  /\ UNCHANGED <<store, now>>

\* the INSERT calls back with an error: the callback answers 500
InsertFails(c) ==
  /\ inflight[c].pc = "insert"
  /\ inflight' = [inflight EXCEPT ![c] = Ended(inflight[c], "StoreFailure")]
  /\ UNCHANGED <<store, now>>

\* the response is out
Close(c) ==
  /\ inflight[c].pc = "StoreFailure"
  /\ inflight' = [inflight EXCEPT ![c] = Idle]
  /\ UNCHANGED <<store, now>>

\* GET /availability up to the first await of its async block: it answers at
\* once when the date is missing or wrong, the day a weekend day or without a
\* slot to ask about; otherwise the block waits for its first SELECT
listValid(c, dayStart, serviceType, details, duration) ==
  IF isWeekend(dayStart) THEN UNCHANGED inflight
  ELSE IF ~candidateInDay(generateSlotsForDay(dayStart), -1, duration,
                          now).found
  THEN UNCHANGED inflight
  ELSE inflight' = [inflight EXCEPT ![c] =
         Handler("list", serviceType, details, FALSE, dayStart, dayStart, 0,
                 now)]

BeginList(c, dateStr, serviceType, detailsRaw) ==
  /\ inflight[c].pc = "idle"
  /\ IF dateStr = NoDate \/ ~isValidISO(dateStr) THEN UNCHANGED inflight
     ELSE listValid(c, startOfDay(fromISO(dateStr)), serviceType,
                    queryDetails(detailsRaw),
                    minutesOf(serviceType, queryDetails(detailsRaw)))
  /\ UNCHANGED <<store, now>>

\* every SELECT of the loop calls back with rows: the block answers the list
ListDone(c) ==
  /\ inflight[c].pc = "list"
  /\ inflight' = [inflight EXCEPT ![c] = Idle]
  /\ UNCHANGED <<store, now>>

\* a SELECT of the loop calls back with an error: checkConflicts rejects
\* inside the async block, whose promise nobody awaits or catches; the
\* rejection is unhandled and no response is sent
ListFails(c) ==
  /\ inflight[c].pc = "list"
  /\ inflight' = [inflight EXCEPT ![c] = Ended(inflight[c], "unhandled")]
  /\ UNCHANGED <<store, now>>

NextFail ==
  \/ \E c \in Callers, b \in ConcBookings :
       BeginBook(c, b[1].serviceType, b[2], b[1].details)
  \/ \E c \in Callers : CheckDone(c)
  \/ \E c \in Callers : InsertDone(c)
  \/ \E c \in Callers : CheckFails(c)
  \/ \E c \in Callers : InsertFails(c)
  \/ \E c \in Callers : Close(c)
  \/ \E c \in Callers, q \in Listings :
       BeginList(c, q[1], q[2].serviceType, q[2].details)
  \/ \E c \in Callers : ListDone(c)
  \/ \E c \in Callers : ListFails(c)

SpecFail == Init /\ [][NextFail]_vars

----------------------------------------------------------------------------
(* Requests handled one at a time *)

Next ==
  \/ \E b \in Bookings : PostBook(b[1].serviceType, b[2], b[1].details)
  \/ \E row \in BagToSet(store) \cup {NoRow} : DeleteBook(row)
  \/ \E q \in Listings : GetAvailability(q[1], q[2].serviceType, q[2].details)
  \/ Tick

Spec == Init /\ [][Next]_vars

\* automatic bookings and deletions only
NextAuto ==
  \/ \E b \in AutoBookings : PostBook(b[1].serviceType, b[2], b[1].details)
  \/ \E row \in BagToSet(store) : DeleteBook(row)
  \/ Tick

SpecAuto == Init /\ [][NextAuto]_vars

----------------------------------------------------------------------------
(* The functions called on their own *)

UnitValues == { Undef, Num(0), Num(-2), Num(3), NumStr(1), NumStr(2), Junk }

DetailsInputs ==
  {Obj(s, nS, a, nA) : s \in UnitValues, nS \in UnitValues,
                       a \in UnitValues, nA \in UnitValues}
  \cup {MissingDetails, BadJsonDetails}

ServiceTypeInputs ==
  { KidudEn, KidudHe, <<"K","i","d","u","d"," ">>,
    <<"x","-","K","I","D","U","D","2">>, <<"he">> \o KidudHe \o <<"yod">>,
    KavuaHe, <<" ","H","o","t","z","l","a">>, <<"c","h","u","l">>,
    <<"a","b","c">>, <<>> }
  \cup ObjectPrototypeKeys

\* the days of one week, from the Thursday
DayInputs == {At(d, 0, 0) : d \in 0..6}

\* a call and the value it returned
Call(pc, args, result) == [pc |-> pc, args |-> args, result |-> result]

DirectCaller == "a"

InitCalls ==
  /\ store = EmptyBag
  /\ now = At(0, 8, 0)
  /\ inflight = [c \in Callers |-> Idle]

CallDuration(serviceType, details) ==
  /\ inflight[DirectCaller].pc = "idle"
  /\ inflight' = [inflight EXCEPT ![DirectCaller] =
       Call("computeDuration", <<serviceType, details>>,
            computeDuration(serviceType, details))]
  /\ UNCHANGED <<store, now>>

CallSlots(day) ==
  /\ inflight[DirectCaller].pc = "idle"
  /\ inflight' = [inflight EXCEPT ![DirectCaller] =
       Call("generateSlotsForDay", <<day>>, generateSlotsForDay(day))]
  /\ UNCHANGED <<store, now>>

\* the caller has the value
Return ==
  /\ inflight[DirectCaller].pc \in {"computeDuration", "generateSlotsForDay"}
  /\ inflight' = [inflight EXCEPT ![DirectCaller] = Idle]
  /\ UNCHANGED <<store, now>>

NextCalls ==
  \/ Return
  \/ /\ inflight[DirectCaller].pc = "idle"
     /\ \E serviceType \in ServiceTypeInputs, details \in DetailsInputs :
          CallDuration(serviceType, details)
  \/ /\ inflight[DirectCaller].pc = "idle"
     /\ \E day \in DayInputs : CallSlots(day)

SpecCalls == InitCalls /\ [][NextCalls]_vars

----------------------------------------------------------------------------
(* What the claims speak of, stated without the handlers' own tests *)

RowStart(r) == fromISO(r.startTime)

RowEnd(r) == fromISO(r.endTime)

\* true interval overlap: adjacency does not count
TrueOverlap(s1, e1, s2, e2) == e1 > s2 /\ s1 < e2

\* the rows of the table that overlap [start, end), with their copies
Overlapping(start, end) ==
  LET hit == {r \in DOMAIN store :
                TrueOverlap(start, end, RowStart(r), RowEnd(r))}
  IN  [r \in hit |-> store[r]]

\* the rows that cover the instant t
CoverCount(t) == BagCardinality(Overlapping(t, t + 1))

\* no instant is covered by more than two rows; coverage only rises at the
\* start of a row
CapacityRule == \A r \in DOMAIN store : CoverCount(RowStart(r)) <= 2

PrimaryUnits(details) == UnitCount(details.sodi, details.numS)

SecondaryUnits(details) == UnitCount(details.anan, details.numA)

\* two different rows of the table, or two copies of one
TwoRows(r1, r2) == r1 # r2 \/ store[r1] >= 2

\* no two overlapping coded-entry rows both with primary units, nor both with
\* secondary units
ExclusivityRule ==
  \A r1 \in DOMAIN store, r2 \in DOMAIN store :
    ( /\ TwoRows(r1, r2)
      /\ IsKidud(r1.serviceType) /\ IsKidud(r2.serviceType)
      /\ TrueOverlap(RowStart(r1), RowEnd(r1), RowStart(r2), RowEnd(r2)) )
    => /\ ~(PrimaryUnits(r1.details) > 0 /\ PrimaryUnits(r2.details) > 0)
       /\ ~(SecondaryUnits(r1.details) > 0 /\ SecondaryUnits(r2.details) > 0)

\* the interval lies inside one working block of its day
InOneBlock(start, end) ==
  \E b \in 1..Len(WORKING_BLOCKS) :
    /\ start >= startOfDay(start) + WORKING_BLOCKS[b].start
    /\ end <= startOfDay(start) + WORKING_BLOCKS[b].end

\* days 1 and 2 of every week of the model are the Friday and the Saturday
OnWeekendDay(t) == ((t \div MinutesPerDay) % 7) \in {1, 2}

\* a coded-entry request clashes with an overlapping coded-entry row of its
\* own category
Clashes(start, end, req) ==
  /\ IsKidud(req.serviceType)
  /\ \E r \in DOMAIN Overlapping(start, end) :
       /\ IsKidud(r.serviceType)
       /\ \/ (PrimaryUnits(parseDetails(req.details)) > 0
               /\ PrimaryUnits(r.details) > 0)
          \/ (SecondaryUnits(parseDetails(req.details)) > 0
               /\ SecondaryUnits(r.details) > 0)

\* the rules of the conflict checker
Admissible(start, end, req) ==
  /\ BagCardinality(Overlapping(start, end)) < 2
  /\ ~Clashes(start, end, req)

\* the bodies with a service type and a well-formed start time
ExplicitBookings ==
  {b \in Bookings : b[1].serviceType # <<>> /\ b[2] # NoStartTime
                     /\ isValidISO(b[2])}

AutoRequests == {b[1] : b \in {x \in Bookings : x[1].serviceType # <<>>
                                                 /\ x[2] = NoStartTime}}

ExplicitStart(b) == fromISO(b[2])

ExplicitEnd(b) == fromISO(b[2]) + minutesOf(b[1].serviceType, b[1].details)

\* what POST /book does with the body b in the current state
OutcomeOf(b) == BookOutcome(store, b[1].serviceType, b[2], b[1].details, now)

AutoOutcomeOf(req) ==
  BookOutcome(store, req.serviceType, NoStartTime, req.details, now)

ListingOf(dateStr, req) ==
  AvailabilityOutcome(store, dateStr, req.serviceType, req.details, now)

----------------------------------------------------------------------------
(* Claims *)

\* C1: with requests handled one at a time, no instant is covered by more
\* than two rows of the table, and an explicit booking whose interval truly
\* overlaps two or more rows inserts nothing, whatever the service types: it
\* is answered Conflict when the interval is inside a working block (an
\* interval that is not has had its answer before the conflict check).
C1_CapacityRule ==
  /\ CapacityRule
  /\ \A b \in ExplicitBookings :
       BagCardinality(Overlapping(ExplicitStart(b), ExplicitEnd(b))) >= 2
       => /\ ~OutcomeOf(b).insert
          /\ InOneBlock(ExplicitStart(b), ExplicitEnd(b))
               => OutcomeOf(b).resp.kind = "Conflict"

\* three rows in the table, two of them over one instant, and a body whose
\* interval overlaps both
C1_Witness ==
  /\ BagCardinality(store) = 3
  /\ \E b \in ExplicitBookings :
       /\ InOneBlock(ExplicitStart(b), ExplicitEnd(b))
       /\ BagCardinality(Overlapping(ExplicitStart(b), ExplicitEnd(b))) >= 2
       /\ OutcomeOf(b).resp.message = MsgTwoOverlap

\* C2: with requests handled one at a time, the table never holds two
\* overlapping coded-entry rows that both have primary units, nor two that
\* both have secondary units; the explicit booking that would be the second
\* of such a pair inserts nothing and, its interval being inside a working
\* block, is answered Conflict.
C2_CodedEntryExclusivity ==
  /\ ExclusivityRule
  /\ \A b \in ExplicitBookings :
       Clashes(ExplicitStart(b), ExplicitEnd(b), b[1])
       => /\ ~OutcomeOf(b).insert
          /\ InOneBlock(ExplicitStart(b), ExplicitEnd(b))
               => OutcomeOf(b).resp.kind = "Conflict"

\* one coded-entry row alone over the interval of a coded-entry body of the
\* same category, which is refused for that reason
C2_Witness ==
  \E b \in ExplicitBookings :
    /\ BagCardinality(Overlapping(ExplicitStart(b), ExplicitEnd(b))) = 1
    /\ Clashes(ExplicitStart(b), ExplicitEnd(b), b[1])
    /\ OutcomeOf(b).resp.message \in {MsgSodi, MsgAnan}

\* C3: when booking requests interleave at their awaits, the capacity rule
\* and the coded-entry exclusivity rule hold of the table in every reachable
\* state.
C3_InterleavedRequestsKeepRules == CapacityRule /\ ExclusivityRule

\* C4: every row of the table lies inside one working block of its day and
\* is as long as the duration of its service type and details.
C4_FitsBlockAndDuration ==
  \A r \in DOMAIN store :
    /\ InOneBlock(RowStart(r), RowEnd(r))
    /\ RowEnd(r) - RowStart(r) = minutesOf(r.serviceType, r.details)

\* three rows in the table, a 5-minute and a 10-minute one among them
C4_Witness ==
  /\ BagCardinality(store) = 3
  /\ \E r1 \in DOMAIN store, r2 \in DOMAIN store :
       RowEnd(r1) - RowStart(r1) = 5 /\ RowEnd(r2) - RowStart(r2) = 10

\* the slots of the grid from today to the day of the instant upto that
\* start before it, not before now, on a working day, with the request's
\* interval inside one block
Candidates(req, upto) ==
  LET dur  == minutesOf(req.serviceType, req.details)
      last == (startOfDay(upto) - startOfDay(now)) \div MinutesPerDay
      days == {startOfDay(now) + k * MinutesPerDay : k \in 0..last}
      grid(day) == LET slots == generateSlotsForDay(day)
                   IN  {slots[i] : i \in 1..Len(slots)}
  IN  {c \in UNION {grid(day) : day \in {x \in days : ~OnWeekendDay(x)}} :
         c < upto /\ c >= now /\ InOneBlock(c, c + dur)}

FirstAdmissible(req, o) ==
  o.insert =>
    /\ o.start >= now
    /\ Admissible(o.start, o.end, req)
    /\ \A c \in Candidates(req, o.start) :
         ~Admissible(c, c + minutesOf(req.serviceType, req.details), req)

\* C5: the slot that an automatic booking takes does not start before now, is
\* admissible, and no slot of the grid that starts earlier (on a working day,
\* not before now, inside one block) is admissible.  That the slot is a
\* function of (table, request, now) holds of any operator of the model.
C5_FirstAdmissibleSlot ==
  \A req \in AutoRequests : FirstAdmissible(req, AutoOutcomeOf(req))

\* an automatic booking that passes over an earlier slot because of the rows
\* of the table
C5_Witness ==
  /\ BagCardinality(store) >= 2
  /\ \E req \in AutoRequests :
       /\ AutoOutcomeOf(req).insert
       /\ Candidates(req, AutoOutcomeOf(req).start) # {}

EightThirty == At(0, 8, 30)

Thursday == toISO(At(0, 0, 0))

BookedAtEightThirty(req) ==
  Row(req.serviceType, parseDetails(req.details), EightThirty,
      EightThirty + minutesOf(req.serviceType, req.details))

Lists(available, t) == \E i \in 1..Len(available) : available[i] = toISO(t)

EarliestIs(available, t) == available # <<>> /\ available[1] = toISO(t)

ListingAfter(req, row, available) ==
  /\ BookOutcome(EmptyBag, req.serviceType, NoStartTime, req.details, now).start
       = EightThirty
  /\ store = SetToBag({row}) =>
       IF Clashes(EightThirty, RowEnd(row), req)
       THEN ~Lists(available, EightThirty) /\ EarliestIs(available, RowEnd(row))
       ELSE EarliestIs(available, EightThirty)
  /\ store = SetToBag({row}) (+) SetToBag({row}) =>
       ~Lists(available, EightThirty) /\ EarliestIs(available, RowEnd(row))

C7_NoBookingOnWeekend ==
  /\ \A r \in DOMAIN store : ~OnWeekendDay(RowStart(r))
  /\ \A b \in ExplicitBookings :
       OnWeekendDay(ExplicitStart(b)) =>
         OutcomeOf(b).resp.kind = "InvalidInterval"

WeekendDates == { toISO(At(1, 0, 0)), toISO(At(1, 9, 0)), toISO(At(2, 0, 0)) }

\* C8: an automatic booking never takes a slot on a Friday or a Saturday,
\* whatever the table and the instant the search starts from, and the listing
\* of a Friday or a Saturday is the empty list.
C8_SearchSkipsWeekend ==
  /\ \A req \in AutoRequests :
       AutoOutcomeOf(req).insert => ~OnWeekendDay(AutoOutcomeOf(req).start)
  /\ \A dateStr \in WeekendDates, req \in AutoRequests :
       ListingOf(dateStr, req) = Listed(<<>>)

\* a search that starts on the Friday, or late on the Thursday, and takes a
\* slot of the Sunday, with rows already in the table
C8_Witness ==
  /\ store # EmptyBag
  /\ OnWeekendDay(now)
  /\ \E req \in AutoRequests :
       /\ AutoOutcomeOf(req).insert
       /\ AutoOutcomeOf(req).start >= At(3, 0, 0)

OnlyPrimary(details) == PrimaryUnits(details) > 0 /\ SecondaryUnits(details) = 0

OnlySecondary(details) == PrimaryUnits(details) = 0 /\ SecondaryUnits(details) > 0

OtherCategory(d1, d2) ==
  \/ OnlyPrimary(d1) /\ OnlySecondary(d2)
  \/ OnlySecondary(d1) /\ OnlyPrimary(d2)

\* C9: an explicit coded-entry booking with units of one category only, whose
\* interval (inside a working block) overlaps one row only, a coded entry with
\* units of the other category only, is booked.
C9_CategoriesIndependent ==
  \A b \in ExplicitBookings :
    ( /\ IsKidud(b[1].serviceType)
      /\ InOneBlock(ExplicitStart(b), ExplicitEnd(b))
      /\ BagCardinality(Overlapping(ExplicitStart(b), ExplicitEnd(b))) = 1
      /\ \A r \in DOMAIN Overlapping(ExplicitStart(b), ExplicitEnd(b)) :
           /\ IsKidud(r.serviceType)
           /\ OtherCategory(parseDetails(b[1].details), r.details) )
    => /\ OutcomeOf(b).insert
       /\ OutcomeOf(b).resp.kind = "Booked"

\* two overlapping coded-entry rows in the table, one of each category
C9_Witness ==
  \E r1 \in DOMAIN store, r2 \in DOMAIN store :
    /\ IsKidud(r1.serviceType) /\ IsKidud(r2.serviceType)
    /\ TrueOverlap(RowStart(r1), RowEnd(r1), RowStart(r2), RowEnd(r2))
    /\ OnlyPrimary(r1.details) /\ OnlySecondary(r2.details)

ExplicitAnswer(o, start, end, admitted) ==
  /\ ~InOneBlock(start, end) =>
       o.resp.kind = "InvalidInterval" /\ ~o.insert
  /\ (InOneBlock(start, end) /\ ~admitted) =>
       o.resp.kind = "Conflict" /\ o.resp.message # "" /\ ~o.insert
  /\ (InOneBlock(start, end) /\ admitted) =>
       o.insert /\ o.start = start /\ o.end = end /\ o.resp = Booked(start, end)

\* a step of POST /book that leaves the table as it was leaves every variable
\* as it was
ExplicitEffect(b, start, end, admitted) ==
  (store' # store /\ PostBook(b[1].serviceType, b[2], b[1].details)) =>
    store' = IF InOneBlock(start, end) /\ admitted
             THEN store (+) SetToBag({Row(b[1].serviceType,
                                          parseDetails(b[1].details),
                                          start, end)})
             ELSE store

\* C10: with the table answering every query, an explicit booking with a
\* well-formed start is answered InvalidInterval when its interval is not
\* inside one working block, otherwise Conflict with a reason when the
\* conflict checker's rules reject it, otherwise Booked; it adds its row to
\* the table in the third case and leaves the table as it was in the others.
C10_ExplicitOutcomes ==
  /\ [](\A b \in ExplicitBookings :
          ExplicitAnswer(OutcomeOf(b), ExplicitStart(b), ExplicitEnd(b),
                         Admissible(ExplicitStart(b), ExplicitEnd(b), b[1])))
  /\ [][\A b \in ExplicitBookings :
          ExplicitEffect(b, ExplicitStart(b), ExplicitEnd(b),
                         Admissible(ExplicitStart(b), ExplicitEnd(b), b[1]))]_vars

\* a state where the three answers are all to be had
C10_Witness ==
  /\ store # EmptyBag
  /\ \E b \in ExplicitBookings : OutcomeOf(b).resp.kind = "InvalidInterval"
  /\ \E b \in ExplicitBookings : OutcomeOf(b).resp.kind = "Conflict"
  /\ \E b \in ExplicitBookings : OutcomeOf(b).resp.kind = "Booked"

\* the service type of the standing entry authorization
StandingEntry(req) == Includes(normalize(req.serviceType), KavuaHe)

DayOffsetOf(t) == (startOfDay(t) - startOfDay(now)) \div MinutesPerDay

LastOffset(req) == IF StandingEntry(req) THEN 0 ELSE MaxDays

\* c is a slot of the grid of its day
OnGrid(c) ==
  \E b \in 1..Len(WORKING_BLOCKS) :
    /\ c >= startOfDay(c) + WORKING_BLOCKS[b].start
    /\ c < startOfDay(c) + WORKING_BLOCKS[b].end
    /\ (c - startOfDay(c) - WORKING_BLOCKS[b].start) % SLOT_STEP_MIN = 0

\* c is a slot of a working day that is not before now, with the request's
\* interval inside one block and admissible
AdmissibleSlot(req, c, dur) ==
  /\ OnGrid(c) /\ ~OnWeekendDay(c) /\ c >= now
  /\ InOneBlock(c, c + dur)
  /\ Admissible(c, c + dur, req)

\* no slot of the days the search may look at is one
NoneAdmissible(req, dur) ==
  \A k \in 0..LastOffset(req), b \in 1..Len(WORKING_BLOCKS) :
    \A c \in (startOfDay(now) + k * MinutesPerDay + WORKING_BLOCKS[b].start)
               ..(startOfDay(now) + k * MinutesPerDay + WORKING_BLOCKS[b].end
                  - dur) :
      ~AdmissibleSlot(req, c, dur)

BoundedSearch(req, o) ==
  IF o.insert
  THEN /\ DayOffsetOf(o.start) \in 0..LastOffset(req)
       /\ AdmissibleSlot(req, o.start,
                         minutesOf(req.serviceType, req.details))
  ELSE /\ o.resp.kind = "NoAvailability"
       /\ NoneAdmissible(req, minutesOf(req.serviceType, req.details))

SearchRequests == {b[1] : b \in AutoBookings}

\* C11: the search of an automatic booking ends with a slot on one of the
\* MaxDays + 1 days from today (today only for a same-day-only request) or
\* with NoAvailability and nothing inserted, and it ends with NoAvailability
\* exactly when no slot of those days is admissible, as for a request longer
\* than every working block.  The search is a recursion over the day offsets
\* 0..MaxDays, which yields a value in every state.
C11_BoundedSearch ==
  \A req \in SearchRequests : BoundedSearch(req, AutoOutcomeOf(req))

\* late on the Thursday, rows in the table: the 190-minute request and the
\* same-day-only request get NoAvailability, a coded entry gets a later day
C11_Witness ==
  /\ now = At(0, 21, 58)
  /\ store # EmptyBag
  /\ AutoOutcomeOf(KidudLong).resp.kind = "NoAvailability"
  /\ AutoOutcomeOf(Kavua).resp.kind = "NoAvailability"
  /\ AutoOutcomeOf(KidudSodi).insert

FitsSomeBlock(req) ==
  \E b \in 1..Len(WORKING_BLOCKS) :
    minutesOf(req.serviceType, req.details)
      <= WORKING_BLOCKS[b].end - WORKING_BLOCKS[b].start

TodayIsOver == OnWeekendDay(now) \/ now > startOfDay(now) + At(0, 21, 55)

SameDayPolicy(req, o) ==
  IF StandingEntry(req)
  THEN /\ o.insert => startOfDay(o.start) = startOfDay(now)
       /\ ~o.insert => o.resp.kind = "NoAvailability"
       /\ TodayIsOver => ~o.insert
  ELSE (TodayIsOver /\ FitsSomeBlock(req)) =>
         o.insert /\ startOfDay(o.start) > startOfDay(now)

\* C12: an automatic booking of the standing entry authorization is placed on
\* the day of the request or answered NoAvailability, and is answered
\* NoAvailability when that day is a weekend day or has no slot left; a
\* request of another service type that fits a working block is then placed
\* on a later day.
C12_SameDayOnly ==
  \A req \in SearchRequests : SameDayPolicy(req, AutoOutcomeOf(req))

\* on the Friday, rows in the table: the standing entry authorization is
\* refused and a coded entry is placed on the Sunday
C12_Witness ==
  /\ OnWeekendDay(now)
  /\ store # EmptyBag
  /\ AutoOutcomeOf(Kavua).resp.kind = "NoAvailability"
  /\ AutoOutcomeOf(KidudAnan).insert
  /\ AutoOutcomeOf(KidudAnan).start >= At(3, 0, 0)

\* the minutes of a day at which a slot starts, in chronological order
DayGrid ==
  LET S == {m \in 0..(MinutesPerDay - 1) : OnGrid(m)}
  IN  [i \in 1..Cardinality(S) |->
         CHOOSE c \in S : Cardinality({x \in S : x < c}) = i - 1]

\* the starts a listing of the day is to hold: none on a weekend day, else
\* the slots of the day that are not before now when the day is today, with
\* the request's interval inside one block and admissible
ExpectedListing(day, req, dur) ==
  LET Keep(c) == /\ ~(c < now /\ startOfDay(c) = startOfDay(now))
                 /\ InOneBlock(c, c + dur)
                 /\ Admissible(c, c + dur, req)
  IN  IF OnWeekendDay(day) THEN <<>>
      ELSE SelectSeq([i \in 1..Len(DayGrid) |-> day + DayGrid[i]], Keep)

SameStarts(available, expected) ==
  /\ Len(available) = Len(expected)
  /\ \A i \in 1..Len(expected) : available[i] = toISO(expected[i])

ListingAgrees(day, req, listing) ==
  /\ listing.kind = "Listed"
  /\ SameStarts(listing.available,
                ExpectedListing(day, req,
                                minutesOf(req.serviceType, req.details)))
  /\ (day = startOfDay(now) /\ listing.available # <<>>) =>
       /\ AutoOutcomeOf(req).insert
       /\ toISO(AutoOutcomeOf(req).start) = listing.available[1]

ListedDays == { At(0, 0, 0), At(1, 0, 0), At(3, 0, 0) }

\* C13: the listing of a day for a request is, in chronological order,
\* exactly the slots of that day that are not before now (when the day is
\* today), whose interval is inside one block and admissible, and nothing on
\* a weekend day; when the listing of today is not empty its first entry is
\* the start that an automatic booking of the same request takes.
C13_ListingAgreesWithSearch ==
  \A day \in ListedDays, req \in AutoRequests :
    ListingAgrees(day, req, ListingOf(toISO(day), req))

\* inside the first block of the Thursday, rows in the table: the listing of
\* today leaves out the past slots and the full ones
C13_Witness ==
  /\ now = At(0, 8, 32)
  /\ BagCardinality(store) >= 2
  /\ \E req \in AutoRequests :
       /\ ListingOf(Thursday, req).available # <<>>
       /\ fromISO(ListingOf(Thursday, req).available[1]) > At(0, 8, 35)

\* C14: a step of GET /availability leaves the table as it was, for every
\* query, answered with a list or with an error.
C14_ListingKeepsTable ==
  [][\A q \in Listings :
       store' = store \/ ~GetAvailability(q[1], q[2].serviceType, q[2].details)]_vars

\* rows in the table, a query answered with a list that is not empty and a
\* query answered with an error
C14_Witness ==
  /\ store # EmptyBag
  /\ \E q \in Listings : ListingOf(q[1], q[2]).available # <<>>
  /\ \E q \in Listings : ListingOf(q[1], q[2]).status = 400

\* C15: when a statement of the table fails during a booking or a listing,
\* the caller gets an answer: no handler is left with a rejection that nothing
\* handles and no response sent.
C15_StoreFailureIsAnswered ==
  \A c \in Callers : inflight[c].pc # "unhandled"

Returned(name) == {inflight[c] : c \in {x \in Callers : inflight[x].pc = name}}

\* C16: generateSlotsForDay returns the empty sequence for a Friday and for a
\* Saturday, and for any other day the starts stepped every 5 minutes from
\* the start of each working block up to the last one before its end, in
\* chronological order.
C16_SlotsForDay ==
  \A call \in Returned("generateSlotsForDay") :
    IF OnWeekendDay(call.args[1]) THEN call.result = <<>>
    ELSE call.result = [i \in 1..Len(DayGrid) |-> call.args[1] + DayGrid[i]]

\* the designated keyword, in either language, somewhere in the service type,
\* whatever its case
HasKeyword(serviceType) ==
  LET low == [i \in 1..Len(serviceType) |-> ToLowerChar(serviceType[i])]
  IN  \E i \in 1..Len(low) :
        /\ i + 4 <= Len(low)
        /\ SubSeq(low, i, i + 4) \in {KidudEn, KidudHe}

\* a unit count under its two field names: the first name when it is given
\* and is not the number 0, else the second; 0 when that is missing, not a
\* number or negative
FieldCount(first, second) ==
  LET given == first.t # "undef" /\ first # Num(0)
      x     == IF given THEN first ELSE second
  IN  IF x.t \in {"num", "str"} /\ x.v > 0 THEN x.v ELSE 0

GivenDetails(details) ==
  IF details.kind = "object" THEN details ELSE EmptyObject

CodedEntryMinutes(details) ==
  Max(10, 10 * Max(FieldCount(details.sodi, details.numS),
                   FieldCount(details.anan, details.numA)))

\* C17: for a service type with the coded-entry keyword, computeDuration
\* returns max(10, 10 * max(primary units, secondary units)) minutes, each
\* count read under either of its field names, 0 when missing or malformed
\* and never negative.
C17_CodedEntryDuration ==
  \A call \in Returned("computeDuration") :
    HasKeyword(call.args[1]) =>
      call.result = Num(CodedEntryMinutes(GivenDetails(call.args[2])))

\* the call with 3 primary units and no secondary ones, which returns 30
C17_Witness ==
  \E call \in Returned("computeDuration") :
    /\ HasKeyword(call.args[1])
    /\ call.args[2].kind = "object"
    /\ call.args[2].sodi = Num(3) /\ call.args[2].anan = Undef
    /\ call.args[2].numA = Undef
    /\ call.result = Num(30)

\* the service type is a label of the table, whatever its case
InTable(serviceType) ==
  \E i \in 1..Len(DurationMap) :
    ToLowerCase(DurationMap[i].key) = ToLowerCase(Trim(serviceType))

\* C18: for every service type and details computeDuration returns a whole
\* number of minutes, at least 1, and 5 for a service type that has not the
\* coded-entry keyword and is not a label of the table.
C18_DurationIsMinutes ==
  \A call \in Returned("computeDuration") :
    /\ call.result.t = "num"
    /\ call.result.v >= 1
    /\ (~HasKeyword(call.args[1]) /\ ~InTable(call.args[1])) =>
         call.result.v = 5

\* POST /book with the start a listing gave, for the same request, read from
\* the same table at the instant nowDT: a row from that start, as long as the
\* duration
BooksListed(req, startISO, nowDT) ==
  LET o == BookOutcome(store, req.serviceType, startISO, req.details, nowDT)
  IN  /\ o.insert
      /\ o.resp.status = 200
      /\ o.start = fromISO(startISO)
      /\ o.end = fromISO(startISO) + minutesOf(req.serviceType, req.details)

\* the explicit branch of the handler (the duration computed once, as the
\* handler does) on every listed start, and the whole handler, at this and
\* every later instant, on the first
ListedStartsBook(req, available, details, dur) ==
  /\ \A i \in 1..Len(available) :
       LET o == validOutcome(store, req.serviceType, available[i], details,
                             dur, now)
       IN  /\ o.insert
           /\ o.resp.status = 200
           /\ o.start = fromISO(available[i])
           /\ o.end = fromISO(available[i]) + dur
  /\ available # <<>> =>
       \A t \in ClockInstants : t >= now => BooksListed(req, available[1], t)

\* C19: every start that GET /availability lists for a day and a request is a
\* start POST /book accepts for the same request while the table is the same:
\* it inserts the row from that start to that start plus the duration.
C19_ListedStartCanBeBooked ==
  \A day \in ListedDays, req \in AutoRequests :
    ListedStartsBook(req, ListingOf(toISO(day), req).available,
                     parseDetails(req.details),
                     minutesOf(req.serviceType, req.details))

\* a table with rows, a listing that has lost slots to them and still has
\* some, one of them overlapping a row
C19_Witness ==
  /\ store # EmptyBag
  /\ \E day \in ListedDays, req \in AutoRequests :
       LET available == ListingOf(toISO(day), req).available
           dur       == minutesOf(req.serviceType, req.details)
       IN  /\ available # <<>>
           /\ Len(available) < Len(DayGrid)
           /\ \E i \in 1..Len(available) :
                /\ Overlapping(fromISO(available[i]),
                               fromISO(available[i]) + dur) # EmptyBag
                /\ BooksListed(req, available[i], now)

\* the rows a step adds to the table; created_at of such a row is the clock
\* of the step, DateTime.now() in the arguments of the INSERT
InsertedRows == {r \in BagToSet(store') : CopiesIn(r, store') > CopiesIn(r, store)}

\* C20: no row enters the table with a start earlier than the instant it is
\* created at: whenever POST /book, with or without a start time, inserts a
\* row, the start of the row is not before the clock of the insertion.
C20_StartNotBeforeCreation ==
  [][\A r \in InsertedRows : fromISO(r.startTime) >= now]_vars

====
